---- MODULE Spec2Model ----
(***************************************************************************)
(* Client-side upload / analyze / AI-agent widgets of PlanLytics.          *)
(*                                                                         *)
(*   Spec        the page script with the defensive fetchJSON helper       *)
(*               (src/unnamed/part_001)                                    *)
(*   SpecLegacy  the page script that calls res.json() directly            *)
(*               (src/backend/static/app.js)                               *)
(*   SpecApp     the React App with its MiniChat                           *)
(*               (src/frontend/src/App.tsx, src/unnamed/part_003)          *)
(*   SpecWidget  the combined Upload & Analyze widget                      *)
(*               (src/frontend/vite.config.ts)                             *)
(*   SpecLive    Spec at one clock value, with every pending request        *)
(*               eventually settling                                       *)
(***************************************************************************)
EXTENDS Integers, Sequences, FiniteSets, Bags, TLC

VARIABLES
    script,          \* which page script is loaded: "fetchJSON" or "resjson"
    now,             \* Date.now()
    fileInput,       \* fileInput.files
    uploadedFile,    \* let uploadedFile
    uploadBtn,       \* [disabled, textContent]
    analyzeBtn,
    aiAgentBtn,
    uploadStatus,    \* uploadStatus.textContent
    analysisResult,  \* analysisResult.innerHTML, by template
    aiResult,        \* aiResult.innerHTML, by template
    lastAlert,       \* text of the last alert() shown
    uploadReqs,      \* bag of /api/upload requests awaiting a response
    analyzeReqs,     \* bag of /api/analyze requests awaiting a response
    agentReqs,       \* bag of /api/agent requests awaiting a response
    file,            \* App: useState file
    msg,             \* App: useState msg
    appReqs,         \* App: bag of /api/upload requests awaiting a response
    messages,        \* MiniChat: useState messages
    input,           \* MiniChat: useState input
    disabled,        \* MiniChat: useState disabled
    chatReqs,        \* MiniChat: bag of /api/homechat requests awaiting a response
    widgetFile,      \* Upload & Analyze widget: useState file
    template,        \* Upload & Analyze widget: useState template
    result,          \* Upload & Analyze widget: useState result
    loading,         \* Upload & Analyze widget: useState loading
    axiosReqs        \* Upload & Analyze widget: bag of /analyze posts awaiting a response

pageVars == <<fileInput, uploadedFile, uploadBtn, analyzeBtn, aiAgentBtn,
              uploadStatus, analysisResult, aiResult, lastAlert,
              uploadReqs, analyzeReqs, agentReqs>>
appVars == <<file, msg, appReqs>>
chatVars == <<messages, input, disabled, chatReqs>>
widgetVars == <<widgetFile, template, result, loading, axiosReqs>>
vars == <<script, now, pageVars, appVars, chatVars, widgetVars>>

----------------------------------------------------------------------------
(* Bounds of the model *)

MaxInFlight == 2      \* requests of one stage that may be awaiting a response
MaxNow == 1           \* last clock value
MaxMessages == 4      \* MiniChat log length

----------------------------------------------------------------------------
(* JavaScript values *)

undefined == [t |-> "undefined"]
null == [t |-> "null"]
Str(s) == [t |-> "string", v |-> s]
Num(n) == [t |-> "number", v |-> n]

\* ToBoolean: what `!x` and `x || y` test
Truthy(x) ==
    \/ x.t = "string" /\ x.v # ""
    \/ x.t = "number" /\ x.v # 0

\* ToString: what a template literal `${x}` and string `+` produce
ToStr(x) ==
    CASE x.t = "undefined" -> "undefined"
      [] x.t = "null" -> "null"
      [] x.t = "string" -> x.v
      [] x.t = "number" -> ToString(x.v)

\* property read on a parsed object: a missing property is undefined
Get(data, k) == IF k \in DOMAIN data THEN data[k] ELSE undefined

\* x || s for a string literal s
OrElse(s, dflt) == IF s # "" THEN s ELSE dflt

----------------------------------------------------------------------------
(* Responses of the gateway *)

\* the files the user can pick
Files == {"plan.docx"}

\* JSON.parse on the response texts the model draws from
JSONparseFails(text) == [ok |-> FALSE]
JSONparse(text) ==
    CASE text = "{}" -> [ok |-> TRUE, value |-> << >>]
      [] text = "null" -> [ok |-> TRUE, value |-> null]
      [] text = "{\"filename\":\"plan.pdf\"}" ->
            [ok |-> TRUE, value |-> [filename |-> Str("plan.pdf")]]
      [] text = "{\"filename\":\"plan.pdf\",\"size\":1024}" ->
            [ok |-> TRUE, value |-> [filename |-> Str("plan.pdf"), size |-> Num(1024)]]
      [] text = "{\"error\":\"bad file\"}" ->
            [ok |-> TRUE, value |-> [error |-> Str("bad file")]]
      [] text = "{\"error\":\"rate limit\"}" ->
            [ok |-> TRUE, value |-> [error |-> Str("rate limit")]]
      [] text = "{\"rows\":42,\"download_url_csv\":\"/files/plan.csv\"}" ->
            [ok |-> TRUE, value |-> [rows |-> Num(42),
                                     download_url_csv |-> Str("/files/plan.csv")]]
      [] text = "{\"rows\":42,\"download_url_csv\":\"/files/plan.csv\",\"download_url_xlsx\":\"/files/plan.xlsx\"}" ->
            [ok |-> TRUE, value |-> [rows |-> Num(42),
                                     download_url_csv |-> Str("/files/plan.csv"),
                                     download_url_xlsx |-> Str("/files/plan.xlsx")]]
      [] text = "{\"rows\":\"unknown\",\"download_url_csv\":\"/files/plan.csv\"}" ->
            [ok |-> TRUE, value |-> [rows |-> Str("unknown"),
                                     download_url_csv |-> Str("/files/plan.csv")]]
      [] text = "{\"rows\":null,\"download_url_csv\":\"/files/plan.csv\"}" ->
            [ok |-> TRUE, value |-> [rows |-> null,
                                     download_url_csv |-> Str("/files/plan.csv")]]
      [] text = "{\"download_url_csv\":\"/files/plan.csv\"}" ->
            [ok |-> TRUE, value |-> [download_url_csv |-> Str("/files/plan.csv")]]
      [] text = "{\"rows\":42}" ->
            [ok |-> TRUE, value |-> [rows |-> Num(42)]]
      [] text = "{\"summary\":\"ok\"}" ->
            [ok |-> TRUE, value |-> [summary |-> Str("ok")]]
      [] text = "{\"answer\":\"hi\",\"remaining\":1}" ->
            [ok |-> TRUE, value |-> [answer |-> Str("hi"), remaining |-> Num(1)]]
      [] text = "{\"answer\":\"hi\",\"remaining\":0}" ->
            [ok |-> TRUE, value |-> [answer |-> Str("hi"), remaining |-> Num(0)]]
      [] text = "{\"detail\":\"Too many questions\"}" ->
            [ok |-> TRUE, value |-> [detail |-> Str("Too many questions")]]
      [] OTHER -> JSONparseFails(text)

StatusText(status) ==
    CASE status = 200 -> "OK"
      [] status = 429 -> "Too Many Requests"
      [] status = 500 -> "Internal Server Error"

\* a settled fetch(): a Response, or a rejection (network failure)
Response(status, text) ==
    [type |-> "response", status |-> status,
     statusText |-> StatusText(status), text |-> text]
Rejected == [type |-> "reject", message |-> "Failed to fetch"]
ResOk(res) == res.status >= 200 /\ res.status <= 299

\* what the gateway may answer to /api/upload
UploadResponses ==
    {Rejected}
    \cup {Response(200, b) : b \in {"", "Internal Server Error", "{}",
                                    "{\"filename\":\"plan.pdf\"}"}}
    \cup {Response(500, b) : b \in {"", "Internal Server Error",
                                    "{\"error\":\"bad file\"}"}}

\* what the gateway may answer to /api/analyze
AnalyzeResponses ==
    {Rejected}
    \cup {Response(200, b) : b \in {"Internal Server Error",
            "{\"rows\":42,\"download_url_csv\":\"/files/plan.csv\"}",
            "{\"rows\":42,\"download_url_csv\":\"/files/plan.csv\",\"download_url_xlsx\":\"/files/plan.xlsx\"}",
            "{\"rows\":\"unknown\",\"download_url_csv\":\"/files/plan.csv\"}",
            "{\"rows\":null,\"download_url_csv\":\"/files/plan.csv\"}",
            "{\"download_url_csv\":\"/files/plan.csv\"}",
            "{\"rows\":42}"}}
    \cup {Response(500, b) : b \in {"", "Internal Server Error",
                                    "{\"error\":\"bad file\"}"}}

\* what the gateway may answer to /api/agent
AgentResponses ==
    {Rejected}
    \cup {Response(200, b) : b \in {"", "Internal Server Error", "{\"summary\":\"ok\"}"}}
    \cup {Response(429, b) : b \in {"", "{\"error\":\"rate limit\"}"}}
    \cup {Response(500, b) : b \in {"Internal Server Error", "{\"summary\":\"ok\"}", "null"}}

----------------------------------------------------------------------------
(* Helpers of the page script *)

\* a setBusy that only sets the busy label and never restores the idle one
setBusyNoIdleText(btn, busy, busyText, idleText) ==
    [disabled |-> busy,
     textContent |-> IF busy /\ busyText # "" THEN busyText
                     ELSE btn.textContent]

\* setBusy(btn, busy, busyText, idleText)
setBusy(btn, busy, busyText, idleText) ==
    [disabled |-> busy,
     textContent |-> IF busy /\ busyText # "" THEN busyText
                     ELSE IF ~busy /\ idleText # "" THEN idleText
                     ELSE btn.textContent]

\* showError(container, message): the container's new innerHTML
showError(message) == [kind |-> "error", text |-> "Error: " \o message]

\* The outcome of an awaited call: a value, or a thrown Error
Returned(data) == [threw |-> FALSE, data |-> data]
Threw(message) == [threw |-> TRUE, message |-> message]

\* the TypeError of a property read on null
NullReadMessage(k) == "Cannot read properties of null (reading '" \o k \o "')"

\* new Error(data.error || res.statusText); data.error throws when data is null
StatusError(data, res) ==
    IF data = null THEN Threw(NullReadMessage("error"))
    ELSE Threw(IF Truthy(Get(data, "error")) THEN ToStr(Get(data, "error"))
               ELSE res.statusText)

\* fetchJSON(url, options), given how fetch() settles
fetchJSON(res) ==
    IF res.type = "reject" THEN Threw(res.message)
    ELSE LET parsed == IF res.text # "" THEN JSONparse(res.text)
                       ELSE [ok |-> TRUE, value |-> << >>]
         IN  IF ~parsed.ok THEN Threw(OrElse(res.text, res.statusText))
             ELSE IF ~ResOk(res) THEN StatusError(parsed.value, res)
             ELSE Returned(parsed.value)

\* res.json(): the SyntaxError message never quotes the whole body
SyntaxErrorMessage(text) ==
    IF text = "" THEN "Unexpected end of JSON input"
    ELSE "Unexpected token in JSON at position 0"

\* fetch(); res.json(); if (!res.ok) throw ...
fetchResJson(res) ==
    IF res.type = "reject" THEN Threw(res.message)
    ELSE LET parsed == IF res.text # "" THEN JSONparse(res.text)
                       ELSE [ok |-> FALSE]
         IN  IF ~parsed.ok THEN Threw(SyntaxErrorMessage(res.text))
             ELSE IF ~ResOk(res) THEN StatusError(parsed.value, res)
             ELSE Returned(parsed.value)

\* the request of a handler, as the loaded script performs it
Fetch(res) == IF script = "fetchJSON" THEN fetchJSON(res) ELSE fetchResJson(res)

----------------------------------------------------------------------------
(* The upload / analyze / AI-agent page *)

\* the disabled attribute of analyzeBtn and aiAgentBtn in the page markup
InitialDisabled == TRUE

InitPage ==
    /\ fileInput = << >>
    /\ uploadedFile = null
    /\ uploadBtn = [disabled |-> FALSE, textContent |-> "Upload"]
    /\ analyzeBtn = [disabled |-> InitialDisabled, textContent |-> "Analyze"]
    /\ aiAgentBtn = [disabled |-> InitialDisabled, textContent |-> "Run AI Agent"]
    /\ uploadStatus = ""
    /\ analysisResult = [kind |-> "empty"]
    /\ aiResult = [kind |-> "empty"]
    /\ lastAlert = ""
    /\ uploadReqs = EmptyBag
    /\ analyzeReqs = EmptyBag
    /\ agentReqs = EmptyBag

\* the user picks a file in the file input, or clears it
SelectFile ==
    /\ \E files \in {<< >>} \cup {<<f>> : f \in Files} :
          /\ files # fileInput
          /\ fileInput' = files
    /\ UNCHANGED <<uploadedFile, uploadBtn, analyzeBtn, aiAgentBtn, uploadStatus,
                   analysisResult, aiResult, lastAlert,
                   uploadReqs, analyzeReqs, agentReqs>>

\* uploadForm submit, up to the await
UploadSubmit ==
    /\ ~uploadBtn.disabled
    /\ IF Len(fileInput) = 0
       THEN /\ lastAlert' = "Choose a file first"
            /\ UNCHANGED <<uploadBtn, analyzeBtn, uploadStatus, uploadReqs>>
       ELSE /\ BagCardinality(uploadReqs) < MaxInFlight
            /\ uploadBtn' = setBusy(uploadBtn, TRUE, "Uploading...", "Upload")
            /\ analyzeBtn' = [analyzeBtn EXCEPT !.disabled = TRUE]
            /\ uploadStatus' = "Uploading..."
            /\ uploadReqs' = uploadReqs (+) SetToBag({[file |-> fileInput[1]]})
            /\ UNCHANGED lastAlert
    /\ UNCHANGED <<fileInput, uploadedFile, aiAgentBtn, analysisResult, aiResult,
                   analyzeReqs, agentReqs>>

\* the try block of the upload handler after the await returned data
UploadSucceeded(data) ==
    /\ uploadedFile' = Get(data, "filename")
    /\ uploadStatus' = "Uploaded: " \o ToStr(Get(data, "filename"))
    /\ analyzeBtn' = [analyzeBtn EXCEPT !.disabled = FALSE]
    /\ aiAgentBtn' = [aiAgentBtn EXCEPT !.disabled = FALSE]
    /\ analysisResult' = [kind |-> "ready", file |-> ToStr(Get(data, "filename"))]
    /\ aiResult' = [kind |-> "ready", file |-> ToStr(Get(data, "filename"))]

\* the catch block of the upload handler
UploadFailed(message) ==
    /\ uploadedFile' = null
    /\ analyzeBtn' = [analyzeBtn EXCEPT !.disabled = TRUE]
    /\ aiAgentBtn' = [aiAgentBtn EXCEPT !.disabled = TRUE]
    /\ analysisResult' = showError(OrElse(message, "Upload failed"))
    /\ uploadStatus' = "Upload failed"
    /\ UNCHANGED aiResult

\* uploadForm submit, from the await on, for one request and its response
UploadResolveWith(req, res) ==
    LET out == Fetch(res) IN
    /\ BagIn(req, uploadReqs)
    /\ uploadReqs' = uploadReqs (-) SetToBag({req})
    /\ IF out.threw THEN UploadFailed(out.message) ELSE UploadSucceeded(out.data)
    /\ uploadBtn' = setBusy(uploadBtn, FALSE, "", "Upload")
    /\ UNCHANGED <<fileInput, lastAlert, analyzeReqs, agentReqs>>

UploadResolve ==
    \E req \in BagToSet(uploadReqs), res \in UploadResponses :
        UploadResolveWith(req, res)

\* the em dash shown for a row count that is not a number (ASCII stand-in)
Dash == "--"

\* a rendering without the typeof check: the rows value is shown as it came
RenderAnalysisRawRows(data, t) ==
    LET csvUrl == ToStr(Get(data, "download_url_csv")) \o "?t=" \o ToString(t)
        xlsxUrl == ToStr(Get(data, "download_url_xlsx")) \o "?t=" \o ToString(t)
        csv == [text |-> "Download CSV", href |-> csvUrl]
        xlsx == [text |-> "Download Excel", href |-> xlsxUrl]
    IN  [kind |-> "complete", rows |-> ToStr(Get(data, "rows")),
         links |-> IF Truthy(Get(data, "download_url_xlsx"))
                   THEN <<csv, xlsx>> ELSE <<csv>>]

\* the links and the row count of a successful analysis, rendered at time t
RenderAnalysis(data, t) ==
    LET csvUrl == ToStr(Get(data, "download_url_csv")) \o "?t=" \o ToString(t)
        xlsxUrl == ToStr(Get(data, "download_url_xlsx")) \o "?t=" \o ToString(t)
        rows == IF Get(data, "rows").t = "number" THEN ToStr(Get(data, "rows"))
                ELSE Dash
        csv == [text |-> "Download CSV", href |-> csvUrl]
        xlsx == [text |-> "Download Excel", href |-> xlsxUrl]
    IN  [kind |-> "complete", rows |-> rows,
         links |-> IF script = "fetchJSON"
                   THEN IF Truthy(Get(data, "download_url_xlsx"))
                        THEN <<csv, xlsx>> ELSE <<csv>>
                   ELSE <<csv, xlsx>>]

\* the click handler without its `if (!uploadedFile)` early return
AnalyzeClickUnguarded ==
    /\ ~analyzeBtn.disabled
    /\ BagCardinality(analyzeReqs) < MaxInFlight
    /\ analyzeBtn' = setBusy(analyzeBtn, TRUE, "Analyzing...", "Analyze")
    /\ analysisResult' = [kind |-> "analyzing", file |-> ToStr(uploadedFile)]
    /\ analyzeReqs' = analyzeReqs (+) SetToBag({[filename |-> uploadedFile]})
    /\ UNCHANGED <<fileInput, uploadedFile, uploadBtn, aiAgentBtn, uploadStatus,
                   aiResult, lastAlert, uploadReqs, agentReqs>>

\* analyzeBtn click, up to the await
AnalyzeClick ==
    /\ ~analyzeBtn.disabled
    /\ IF ~Truthy(uploadedFile)
       THEN /\ lastAlert' = "Upload a file first"
            /\ UNCHANGED <<analyzeBtn, analysisResult, analyzeReqs>>
       ELSE /\ BagCardinality(analyzeReqs) < MaxInFlight
            /\ analyzeBtn' = setBusy(analyzeBtn, TRUE, "Analyzing...", "Analyze")
            /\ analysisResult' = [kind |-> "analyzing", file |-> ToStr(uploadedFile)]
            /\ analyzeReqs' = analyzeReqs (+) SetToBag({[filename |-> uploadedFile]})
            /\ UNCHANGED lastAlert
    /\ UNCHANGED <<fileInput, uploadedFile, uploadBtn, aiAgentBtn, uploadStatus,
                   aiResult, uploadReqs, agentReqs>>

\* the try block of the analyze handler after the await returned data
AnalyzeSucceeded(data) ==
    /\ analysisResult' = RenderAnalysis(data, now)
    /\ UNCHANGED uploadedFile

\* a catch block copied from the upload handler: it also drops the session
AnalyzeFailedClearsSession(message) ==
    /\ analysisResult' = showError(OrElse(message, "Analysis failed"))
    /\ uploadedFile' = null

\* the catch block of the analyze handler
AnalyzeFailed(message) ==
    /\ analysisResult' = showError(OrElse(message, "Analysis failed"))
    /\ UNCHANGED uploadedFile

\* analyzeBtn click, from the await on, for one request and its response
AnalyzeResolveWith(req, res) ==
    LET out == Fetch(res) IN
    /\ BagIn(req, analyzeReqs)
    /\ analyzeReqs' = analyzeReqs (-) SetToBag({req})
    /\ IF out.threw THEN AnalyzeFailed(out.message) ELSE AnalyzeSucceeded(out.data)
    /\ analyzeBtn' = setBusy(analyzeBtn, FALSE, "", "Analyze")
    /\ UNCHANGED <<fileInput, uploadBtn, aiAgentBtn, uploadStatus,
                   aiResult, lastAlert, uploadReqs, agentReqs>>

AnalyzeResolve ==
    \E req \in BagToSet(analyzeReqs), res \in AnalyzeResponses :
        AnalyzeResolveWith(req, res)

\* aiAgentBtn click, up to the await
AgentClick ==
    /\ ~aiAgentBtn.disabled
    /\ IF ~Truthy(uploadedFile)
       THEN /\ lastAlert' = "Upload a file first"
            /\ UNCHANGED <<aiAgentBtn, aiResult, agentReqs>>
       ELSE /\ BagCardinality(agentReqs) < MaxInFlight
            /\ aiAgentBtn' = setBusy(aiAgentBtn, TRUE, "Running AI...", "Run AI Agent")
            /\ aiResult' = [kind |-> "running", file |-> ToStr(uploadedFile)]
            /\ agentReqs' = agentReqs (+) SetToBag({[filename |-> uploadedFile]})
            /\ UNCHANGED lastAlert
    /\ UNCHANGED <<fileInput, uploadedFile, uploadBtn, analyzeBtn, uploadStatus,
                   analysisResult, uploadReqs, analyzeReqs>>

\* the try block of the AI-agent handler after the await returned data
AgentSucceeded(data) ==
    /\ aiResult' = [kind |-> "data", data |-> data]
    /\ UNCHANGED uploadedFile

\* the catch block of the AI-agent handler
AgentFailed(message) ==
    /\ aiResult' = showError(OrElse(message, "AI Agent failed"))
    /\ UNCHANGED uploadedFile

\* aiAgentBtn click, from the await on, for one request and its response
AgentResolveWith(req, res) ==
    LET out == Fetch(res) IN
    /\ BagIn(req, agentReqs)
    /\ agentReqs' = agentReqs (-) SetToBag({req})
    /\ IF out.threw THEN AgentFailed(out.message) ELSE AgentSucceeded(out.data)
    /\ aiAgentBtn' = setBusy(aiAgentBtn, FALSE, "", "Run AI Agent")
    /\ UNCHANGED <<fileInput, uploadBtn, analyzeBtn, uploadStatus,
                   analysisResult, lastAlert, uploadReqs, analyzeReqs>>

AgentResolve ==
    \E req \in BagToSet(agentReqs), res \in AgentResponses :
        AgentResolveWith(req, res)

\* time passes
Tick ==
    /\ now < MaxNow
    /\ now' = now + 1

----------------------------------------------------------------------------
(* The React App: upload form *)

InitApp ==
    /\ file = null
    /\ msg = ""
    /\ appReqs = EmptyBag

\* onChange of the file input: setFile(e.target.files?.[0] || null)
SetFile ==
    /\ \E f \in {null} \cup {Str(n) : n \in Files} :
          /\ f # file
          /\ file' = f
    /\ UNCHANGED <<msg, appReqs>>

\* handleUpload, up to the await
HandleUpload ==
    /\ file # null
    /\ BagCardinality(appReqs) < MaxInFlight
    /\ appReqs' = appReqs (+) SetToBag({[file |-> file.v]})
    /\ UNCHANGED <<file, msg>>

\* handleUpload, from the await on, for one request and its response
HandleUploadResolveWith(req, res) ==
    LET json == IF res.type = "reject" \/ res.text = "" THEN [ok |-> FALSE]
                ELSE JSONparse(res.text)
    IN  /\ BagIn(req, appReqs)
        /\ appReqs' = appReqs (-) SetToBag({req})
        /\ msg' = IF json.ok
                  THEN "Uploaded " \o ToStr(Get(json.value, "filename"))
                       \o " (" \o ToStr(Get(json.value, "size")) \o " bytes)"
                  ELSE msg
        /\ UNCHANGED file

\* what the gateway may answer to the App's /api/upload
AppUploadResponses ==
    UploadResponses \cup {Response(200, "{\"filename\":\"plan.pdf\",\"size\":1024}")}

HandleUploadResolve ==
    \E req \in BagToSet(appReqs), res \in AppUploadResponses :
        HandleUploadResolveWith(req, res)

----------------------------------------------------------------------------
(* MiniChat *)

\* String.prototype.trim on the inputs the model draws from
Trim(s) == IF s = " " THEN "" ELSE IF s = " hi" THEN "hi" ELSE s

Inputs == {"", " ", " hi"}

ChatTexts == {"Internal Server Error",
              "{\"answer\":\"hi\",\"remaining\":1}",
              "{\"answer\":\"hi\",\"remaining\":0}",
              "{\"detail\":\"Too many questions\"}"}
ChatResponses ==
    {Rejected} \cup {Response(s, b) : s \in {200, 429, 500}, b \in ChatTexts}

InitChat ==
    /\ messages = << >>
    /\ input = ""
    /\ disabled = FALSE
    /\ chatReqs = EmptyBag

\* onChange of the text input, which is disabled={disabled}
SetInput ==
    /\ ~disabled
    /\ \E s \in Inputs : s # input /\ input' = s
    /\ UNCHANGED <<messages, disabled, chatReqs>>

\* x <= 0 on a JavaScript value
LeqZero(x) ==
    \/ x.t = "number" /\ x.v <= 0
    \/ x.t = "null"
    \/ x.t = "string" /\ x.v = ""

\* send, up to the await; the button is disabled={disabled || !input.trim()}
Send ==
    /\ ~(disabled \/ Trim(input) = "")
    /\ Len(messages) + BagCardinality(chatReqs) + 2 <= MaxMessages
    /\ messages' = Append(messages, [sender |-> "You", text |-> Str(Trim(input))])
    /\ input' = ""
    /\ chatReqs' = chatReqs (+) SetToBag({[question |-> Trim(input)]})
    /\ UNCHANGED disabled

\* send, from the await on, for one request and its response
SendResolveWith(req, res) ==
    LET json == IF res.type = "reject" \/ res.text = "" THEN [ok |-> FALSE]
                ELSE JSONparse(res.text)
    IN  /\ BagIn(req, chatReqs)
        /\ chatReqs' = chatReqs (-) SetToBag({req})
        /\ IF ~json.ok
           THEN /\ messages' = Append(messages, [sender |-> "System",
                                 text |-> Str("Error connecting to server")])
                /\ UNCHANGED disabled
           ELSE IF res.status = 429
           THEN /\ messages' = Append(messages, [sender |-> "System",
                                 text |-> IF Truthy(Get(json.value, "detail"))
                                          THEN Get(json.value, "detail")
                                          ELSE Str("Limit reached")])
                /\ disabled' = TRUE
           ELSE /\ messages' = Append(messages, [sender |-> "Bot",
                                 text |-> Get(json.value, "answer")])
                /\ disabled' = (disabled \/ LeqZero(Get(json.value, "remaining")))
        /\ UNCHANGED input

SendResolve ==
    \E req \in BagToSet(chatReqs), res \in ChatResponses :
        SendResolveWith(req, res)

----------------------------------------------------------------------------
(* The combined Upload & Analyze widget *)

Templates == {"master", "automation_framework", "vendor_checklist",
              "side_by_side", "side_by_side_vendor_compare"}

\* what the analyzer service may answer to the post
AxiosResponses ==
    {Rejected}
    \cup {Response(200, b) : b \in {"", "Internal Server Error",
                                     "{\"summary\":\"ok\"}",
                                     "{\"error\":\"bad file\"}"}}
    \cup {Response(429, b) : b \in {""}}
    \cup {Response(500, b) : b \in {"Internal Server Error",
                                     "{\"error\":\"bad file\"}"}}

\* res.data: the body parsed as JSON when it parses, the text otherwise
AxiosData(res) ==
    IF res.text # "" /\ JSONparse(res.text).ok THEN JSONparse(res.text).value
    ELSE Str(res.text)

\* await axios.post(...): resolves for a 2xx status, rejects otherwise
axiosPost(res) ==
    IF res.type = "reject" THEN Threw("Network Error")
    ELSE IF ~ResOk(res)
         THEN Threw("Request failed with status code " \o ToString(res.status))
         ELSE Returned(AxiosData(res))

InitWidget ==
    /\ widgetFile = null
    /\ template = "master"
    /\ result = null
    /\ loading = FALSE
    /\ axiosReqs = EmptyBag

\* onChange of the file input: setFile(e.target.files[0])
SetWidgetFile ==
    /\ \E f \in {undefined} \cup {Str(n) : n \in Files} :
          /\ f # widgetFile
          /\ widgetFile' = f
    /\ UNCHANGED <<template, result, loading, axiosReqs>>

\* onChange of the select
SetTemplate ==
    /\ \E t \in Templates : t # template /\ template' = t
    /\ UNCHANGED <<widgetFile, result, loading, axiosReqs>>

\* handleUpload, up to the await; the submit button is disabled={loading}
WidgetSubmit ==
    /\ ~loading
    /\ IF ~Truthy(widgetFile)
       THEN UNCHANGED <<loading, axiosReqs>>
       ELSE /\ loading' = TRUE
            /\ axiosReqs' = axiosReqs (+)
                   SetToBag({[file |-> widgetFile, template |-> template]})
    /\ UNCHANGED <<widgetFile, template, result>>

\* a handler whose setLoading(false) sits at the end of the try block
WidgetResolveNoFinally(req, res) ==
    LET out == axiosPost(res) IN
    /\ BagIn(req, axiosReqs)
    /\ axiosReqs' = axiosReqs (-) SetToBag({req})
    /\ result' = IF out.threw THEN [error |-> Str(out.message)] ELSE out.data
    /\ loading' = IF out.threw THEN loading ELSE FALSE
    /\ UNCHANGED <<widgetFile, template>>

\* handleUpload, from the await on, for one request and its response
WidgetResolveWith(req, res) ==
    LET out == axiosPost(res) IN
    /\ BagIn(req, axiosReqs)
    /\ axiosReqs' = axiosReqs (-) SetToBag({req})
    /\ result' = IF out.threw THEN [error |-> Str(out.message)] ELSE out.data
    /\ loading' = FALSE
    /\ UNCHANGED <<widgetFile, template>>

WidgetResolve ==
    \E req \in BagToSet(axiosReqs), res \in AxiosResponses :
        WidgetResolveWith(req, res)

----------------------------------------------------------------------------
(* Specifications *)

Init ==
    /\ script = "fetchJSON"
    /\ now = 0
    /\ InitPage /\ InitApp /\ InitChat /\ InitWidget

InitLegacy ==
    /\ script = "resjson"
    /\ now = 0
    /\ InitPage /\ InitApp /\ InitChat /\ InitWidget

offPage == <<script, now, appVars, chatVars, widgetVars>>

Next ==
    \/ SelectFile /\ UNCHANGED offPage
    \/ UploadSubmit /\ UNCHANGED offPage
    \/ UploadResolve /\ UNCHANGED offPage
    \/ AnalyzeClick /\ UNCHANGED offPage
    \/ AnalyzeResolve /\ UNCHANGED offPage
    \/ AgentClick /\ UNCHANGED offPage
    \/ AgentResolve /\ UNCHANGED offPage
    \/ Tick /\ UNCHANGED <<script, pageVars, appVars, chatVars, widgetVars>>

NextApp ==
    \/ SetFile /\ UNCHANGED <<script, now, pageVars, chatVars, widgetVars>>
    \/ HandleUpload /\ UNCHANGED <<script, now, pageVars, chatVars, widgetVars>>
    \/ HandleUploadResolve /\ UNCHANGED <<script, now, pageVars, chatVars, widgetVars>>
    \/ SetInput /\ UNCHANGED <<script, now, pageVars, appVars, widgetVars>>
    \/ Send /\ UNCHANGED <<script, now, pageVars, appVars, widgetVars>>
    \/ SendResolve /\ UNCHANGED <<script, now, pageVars, appVars, widgetVars>>

Spec == Init /\ [][Next]_vars
SpecLegacy == InitLegacy /\ [][Next]_vars
SpecApp == Init /\ [][NextApp]_vars

offWidget == <<script, now, pageVars, appVars, chatVars>>

NextWidget ==
    \/ SetWidgetFile /\ UNCHANGED offWidget
    \/ SetTemplate /\ UNCHANGED offWidget
    \/ WidgetSubmit /\ UNCHANGED offWidget
    \/ WidgetResolve /\ UNCHANGED offWidget

SpecWidget == Init /\ [][NextWidget]_vars

\* every request the page issued is eventually answered or fails: the
\* continuation of each pending await is eventually run
Fairness ==
    /\ WF_vars(UploadResolve /\ UNCHANGED offPage)
    /\ WF_vars(AnalyzeResolve /\ UNCHANGED offPage)
    /\ WF_vars(AgentResolve /\ UNCHANGED offPage)
\* the handlers of the page with the clock held: Date.now() only enters the
\* download URLs and no guard reads it
NextLive ==
    \/ SelectFile /\ UNCHANGED offPage
    \/ UploadSubmit /\ UNCHANGED offPage
    \/ UploadResolve /\ UNCHANGED offPage
    \/ AnalyzeClick /\ UNCHANGED offPage
    \/ AnalyzeResolve /\ UNCHANGED offPage
    \/ AgentClick /\ UNCHANGED offPage
    \/ AgentResolve /\ UNCHANGED offPage
SpecLive == Init /\ [][NextLive]_vars /\ Fairness

----------------------------------------------------------------------------
(* How a response settles, read off the response alone *)

\* the body is text that is not JSON
Malformed(res) ==
    res.type = "response" /\ res.text # "" /\ ~JSONparse(res.text).ok

\* the three failure kinds: network exception, non-2xx, unparsable body
RequestFailed(res) ==
    \/ res.type = "reject"
    \/ res.type = "response" /\ ~ResOk(res)
    \/ Malformed(res)

\* the body is a JSON object with a filename field
HasFilename(res) ==
    /\ res.type = "response" /\ res.text # ""
    /\ JSONparse(res.text).ok
    /\ "filename" \in DOMAIN JSONparse(res.text).value

\* the requests of bag B2 that bag B1 did not hold
Issued(B1, B2) == {r \in BagToSet(B2) : CopiesIn(r, B2) > CopiesIn(r, B1)}

----------------------------------------------------------------------------
(* Claims *)

\* C1: the analyze control is disabled whenever no upload session is stored
\* (uploadedFile is null or absent).
C1_AnalyzeDisabledWithoutSession ==
    uploadedFile \in {null, undefined} => analyzeBtn.disabled

\* C2: for each stage (upload, analyze, AI agent) at most one request of that
\* stage is awaiting its response at any time.
C2_OneRequestPerStage ==
    /\ BagCardinality(uploadReqs) <= 1
    /\ BagCardinality(analyzeReqs) <= 1
    /\ BagCardinality(agentReqs) <= 1

\* C3: when an analysis resolves for a file that is no longer the stored
\* session, its result is discarded: it is not rendered into the result area
\* and it does not change the analyze control.
C3_StaleAnalysisDiscarded ==
    [][\A req \in BagToSet(analyzeReqs), res \in AnalyzeResponses :
          (AnalyzeResolveWith(req, res) /\ req.filename # uploadedFile)
              => (analysisResult' = analysisResult /\ analyzeBtn' = analyzeBtn)]_vars

\* C4: no failed upload (network exception, non-2xx response, or unparsable
\* body) is ever reported as "Uploaded": handling it never sets the
\* "Uploaded ..." message.
C4_FailedUploadNotReportedUploaded ==
    [][\A req \in BagToSet(appReqs), res \in AppUploadResponses :
          (HandleUploadResolveWith(req, res) /\ RequestFailed(res))
              => msg' = msg]_vars

\* C4, for the page script: right after a failed upload is handled the session
\* is cleared, analyze is disabled, the error is rendered and the status line
\* reads "Upload failed".
C4_PageFailedUploadClearsSession ==
    [][\A req \in BagToSet(uploadReqs), res \in UploadResponses :
          (UploadResolveWith(req, res) /\ RequestFailed(res))
              => /\ uploadedFile' = null
                 /\ analyzeBtn'.disabled
                 /\ analysisResult'.kind = "error"
                 /\ uploadStatus' = "Upload failed"]_vars

\* C5: after a 2xx upload response that the client treats as successful, the
\* analyze action is enabled if and only if the response body contained a
\* filename, and that filename is then the stored session.
C5_AnalyzeEnabledIffFilename ==
    [][\A req \in BagToSet(uploadReqs), res \in UploadResponses :
          (UploadResolveWith(req, res) /\ ~RequestFailed(res))
              => /\ ~analyzeBtn'.disabled <=> HasFilename(res)
                 /\ HasFilename(res)
                       => uploadedFile' = JSONparse(res.text).value.filename]_vars

C7_NoRequestWithoutSession ==
    [][/\ ((AnalyzeClick \/ AgentClick) /\ ~Truthy(uploadedFile))
             => UNCHANGED <<fileInput, uploadedFile, uploadBtn, analyzeBtn,
                            aiAgentBtn, uploadStatus, analysisResult, aiResult,
                            uploadReqs, analyzeReqs, agentReqs>>
       /\ \A r \in Issued(analyzeReqs, analyzeReqs') \cup Issued(agentReqs, agentReqs') :
             /\ r.filename.t = "string" /\ r.filename.v # ""
             /\ r.filename = uploadedFile]_vars

\* C7 witness: a click with no session has been answered by the alert, and
\* later an analyze and an agent request have been issued for a stored file.
C7_Witness ==
    /\ lastAlert = "Upload a file first"
    /\ BagCardinality(analyzeReqs) > 0
    /\ BagCardinality(agentReqs) > 0

\* C8: while an upload is awaiting its response, no analyze or AI-agent
\* request is issued.
C8_NoRequestDuringUpload ==
    [][BagCardinality(uploadReqs) > 0
          => /\ Issued(analyzeReqs, analyzeReqs') = {}
             /\ Issued(agentReqs, agentReqs') = {}]_vars

\* C9: whenever the body of an upload, analyze or agent response is text that
\* is not well-formed JSON, the error shown is "Error: " followed by exactly
\* that text; for an upload, analyze is left disabled.
C9_RawTextShownVerbatim ==
    [][/\ \A req \in BagToSet(uploadReqs), res \in UploadResponses :
             (UploadResolveWith(req, res) /\ Malformed(res))
                 => /\ analysisResult' = [kind |-> "error", text |-> "Error: " \o res.text]
                    /\ analyzeBtn'.disabled
       /\ \A req \in BagToSet(analyzeReqs), res \in AnalyzeResponses :
             (AnalyzeResolveWith(req, res) /\ Malformed(res))
                 => analysisResult' = [kind |-> "error", text |-> "Error: " \o res.text]
       /\ \A req \in BagToSet(agentReqs), res \in AgentResponses :
             (AgentResolveWith(req, res) /\ Malformed(res))
                 => aiResult' = [kind |-> "error", text |-> "Error: " \o res.text]]_vars

\* C10: handling a 429 response to /api/agent leaves the AI-agent control
\* disabled, so that no further request can be submitted.
C10_RateLimitDisablesAgent ==
    [][\A req \in BagToSet(agentReqs), res \in AgentResponses :
          (AgentResolveWith(req, res) /\ res.type = "response" /\ res.status = 429)
              => aiAgentBtn'.disabled]_vars

\* C10, for MiniChat: handling a 429 response to /api/homechat sets disabled.
C10_RateLimitDisablesChat ==
    [][\A req \in BagToSet(chatReqs), res \in ChatResponses :
          (SendResolveWith(req, res) /\ res.type = "response" /\ res.status = 429)
              => disabled']_vars


\* the parsed body of a response that is not RequestFailed
BodyOf(res) == IF res.text = "" THEN << >> ELSE JSONparse(res.text).value

\* C11: when an analysis result is on display and another successful analysis
\* with the same download path is rendered, the new CSV link differs from the
\* one on display, also when both are rendered within the same clock tick.
C11_RerunUrlsDistinct ==
    [][\A req \in BagToSet(analyzeReqs), res \in AnalyzeResponses :
          (/\ analysisResult.kind = "complete"
           /\ AnalyzeResolveWith(req, res) /\ ~RequestFailed(res))
              => analysisResult'.links[1].href # analysisResult.links[1].href]_vars

\* the export links a successful analysis response asks for: CSV, then the
\* spreadsheet when the response supplies download_url_xlsx
SuppliedLinks(res, t) ==
    LET url(k) == BodyOf(res)[k].v \o "?t=" \o ToString(t) IN
    (IF "download_url_csv" \in DOMAIN BodyOf(res)
     THEN <<[text |-> "Download CSV", href |-> url("download_url_csv")]>>
     ELSE << >>)
    \o (IF "download_url_xlsx" \in DOMAIN BodyOf(res)
        THEN <<[text |-> "Download Excel", href |-> url("download_url_xlsx")]>>
        ELSE << >>)

\* C12: for every successful analysis response the rendered export links are
\* exactly the download URLs the response supplied, CSV then spreadsheet: one
\* link when only download_url_csv is present, two when download_url_xlsx is
\* present too, and no link built from an absent URL.
C12_LinksAreSuppliedUrls ==
    [][\A req \in BagToSet(analyzeReqs), res \in AnalyzeResponses :
          (AnalyzeResolveWith(req, res) /\ ~RequestFailed(res))
              => /\ analysisResult'.kind = "complete"
                 /\ analysisResult'.links = SuppliedLinks(res, now)]_vars

\* C13: for every successful analysis response the displayed row count is the
\* response's rows value when that is a number and the dash otherwise (a
\* string, null, or no rows field); such a response is never shown as an error.
C13_RowsNumberOrDash ==
    [][\A req \in BagToSet(analyzeReqs), res \in AnalyzeResponses :
          (AnalyzeResolveWith(req, res) /\ ~RequestFailed(res))
              => /\ analysisResult'.kind = "complete"
                 /\ analysisResult'.rows =
                       IF /\ "rows" \in DOMAIN BodyOf(res)
                          /\ BodyOf(res).rows.t = "number"
                       THEN ToString(BodyOf(res).rows.v) ELSE Dash]_vars

\* C13 witness: an analysis whose rows value is not a number is on display
\* with the dash, and the Analyze button is idle again.
C13_Witness ==
    /\ analysisResult.kind = "complete"
    /\ analysisResult.rows = Dash
    /\ analyzeBtn = [disabled |-> FALSE, textContent |-> "Analyze"]


\* C14: a response of /api/homechat with a non-2xx status other than 429 is
\* shown as an error entry; its body is never appended as a Bot answer.
C14_ChatErrorNotRenderedAsBot ==
    [][\A req \in BagToSet(chatReqs), res \in ChatResponses :
          (/\ SendResolveWith(req, res)
           /\ res.type = "response" /\ ~ResOk(res) /\ res.status # 429)
              => messages'[Len(messages')].sender # "Bot"]_vars


\* the entries of a message log sent by one of the given senders
EntriesOf(log, senders) == {i \in 1..Len(log) : log[i].sender \in senders}

\* a response that reports the limit: status 429, or a remaining count <= 0
ReportsLimit(res) ==
    /\ res.type = "response"
    /\ \/ res.status = 429
       \/ /\ res.text # "" /\ JSONparse(res.text).ok
          /\ LeqZero(Get(JSONparse(res.text).value, "remaining"))

\* C17, the part that does not depend on which responses set the flag: the
\* MiniChat disabled flag is never reset, no request is issued once it is set,
\* the log only grows by appending, and Bot/System entries never outnumber
\* the 'You' entries.
C17_DisabledNeverReset ==
    [][/\ disabled => disabled'
       /\ disabled => Issued(chatReqs, chatReqs') = {}
       /\ Len(messages') >= Len(messages)
       /\ SubSeq(messages', 1, Len(messages)) = messages
       /\ Cardinality(EntriesOf(messages', {"Bot", "System"}))
              <= Cardinality(EntriesOf(messages', {"You"}))]_vars

\* C17: the MiniChat disabled flag is monotonic: a 429 response or a response
\* whose remaining count is <= 0 sets it, nothing else does, it is never reset,
\* no request is issued once it is set, the log only grows, and Bot/System
\* entries never outnumber the 'You' entries.
C17_DisabledMonotonic ==
    [][/\ disabled => disabled'
       /\ disabled => Issued(chatReqs, chatReqs') = {}
       /\ Len(messages') >= Len(messages)
       /\ SubSeq(messages', 1, Len(messages)) = messages
       /\ Cardinality(EntriesOf(messages', {"Bot", "System"}))
              <= Cardinality(EntriesOf(messages', {"You"}))
       /\ \A req \in BagToSet(chatReqs), res \in ChatResponses :
              SendResolveWith(req, res)
                  => disabled' = (disabled \/ ReportsLimit(res))
       /\ (~disabled /\ disabled')
              => \E req \in BagToSet(chatReqs), res \in ChatResponses :
                     SendResolveWith(req, res)]_vars


\* the decision table of fetchJSON, as the specification states it
DecisionTable(res) ==
    IF res.type = "reject" THEN Threw(res.message)
    ELSE IF res.text # "" /\ ~JSONparse(res.text).ok THEN Threw(res.text)
    ELSE LET data == IF res.text = "" THEN << >> ELSE JSONparse(res.text).value
             hasError == /\ data # null /\ "error" \in DOMAIN data
                         /\ data.error.t = "string" /\ data.error.v # ""
         IN  IF ~ResOk(res)
             THEN Threw(IF hasError THEN data.error.v ELSE res.statusText)
             ELSE Returned(data)

\* C16: fetchJSON settles every response as the decision table says
\* (unparsable body: raw text, whatever the status; non-2xx: the error field
\* or else the status text; 2xx: the parsed data, or an empty object for an
\* empty body), and every failure is rendered by the same showError.
C16_FetchJSONDecisionTable ==
    [][\A req \in BagToSet(agentReqs), res \in AgentResponses :
          AgentResolveWith(req, res)
              => aiResult' = IF DecisionTable(res).threw
                             THEN showError(DecisionTable(res).message)
                             ELSE [kind |-> "data",
                                   data |-> DecisionTable(res).data]]_vars


\* the idle state of the three buttons
UploadIdle == [disabled |-> FALSE, textContent |-> "Upload"]
AnalyzeIdle == [disabled |-> FALSE, textContent |-> "Analyze"]
AgentIdle == [disabled |-> FALSE, textContent |-> "Run AI Agent"]

\* C15, the step part: a request that resolves, whatever the response, leaves
\* its own button enabled with its idle label, and a busy label is only ever
\* taken off by the resolution of a request of that button.
C15_ResolveClearsBusy ==
    /\ \A req \in BagToSet(uploadReqs), res \in UploadResponses :
          UploadResolveWith(req, res) => uploadBtn' = UploadIdle
    /\ \A req \in BagToSet(analyzeReqs), res \in AnalyzeResponses :
          AnalyzeResolveWith(req, res) => analyzeBtn' = AnalyzeIdle
    /\ \A req \in BagToSet(agentReqs), res \in AgentResponses :
          AgentResolveWith(req, res) => aiAgentBtn' = AgentIdle
    /\ (uploadBtn.textContent = "Uploading..." /\ uploadBtn' # uploadBtn)
          => \E req \in BagToSet(uploadReqs), res \in UploadResponses :
                 UploadResolveWith(req, res)
    /\ (analyzeBtn.textContent = "Analyzing..."
              /\ analyzeBtn'.textContent # "Analyzing...")
          => \E req \in BagToSet(analyzeReqs), res \in AnalyzeResponses :
                 AnalyzeResolveWith(req, res)
    /\ (aiAgentBtn.textContent = "Running AI..."
              /\ aiAgentBtn'.textContent # "Running AI...")
          => \E req \in BagToSet(agentReqs), res \in AgentResponses :
                 AgentResolveWith(req, res)

C18_LoadingWhileInFlight ==
    /\ [](loading <=> BagCardinality(axiosReqs) = 1)
    /\ [](BagCardinality(axiosReqs) <= 1)
    /\ [][\A req \in BagToSet(axiosReqs), res \in AxiosResponses :
            WidgetResolveWith(req, res)
                => /\ ~loading'
                   /\ result' = IF res.type = "response" /\ ResOk(res)
                                THEN AxiosData(res)
                                ELSE [error |-> Str(axiosPost(res).message)]]_vars
    /\ [](~loading => ENABLED WidgetSubmit)

C18_Witness ==
    /\ ~loading
    /\ result = [error |-> Str("Request failed with status code 500")]
    /\ axiosReqs = EmptyBag

====
